---- MODULE Spec2Model ----
(***************************************************************************)
(* Model of synth.py, the synthesis script of pprof-nodejs.                *)
(*                                                                         *)
(*   5  common_templates = gcp.CommonTemplates()                           *)
(*   6  logging.basicConfig(level=logging.DEBUG)                           *)
(*   7  templates = common_templates.node_library()                        *)
(*   8  s.copy(templates / ".kokoro")                                      *)
(*                                                                         *)
(* The script is the module body: one action per statement, pc names the   *)
(* line about to execute.  synthtool is an external collaborator: each of  *)
(* its calls either returns or raises, as the environment decides, and an  *)
(* uncaught exception ends the process with exit code 1.                   *)
(***************************************************************************)
EXTENDS Integers, Sequences, FiniteSets

\* ------------------------------------------------------------------ bounds
\* Number of invocations of the script (each one a fresh process).
MaxRuns == 2

\* ------------------------------------------------------- environment sets
\* Directories in which the library may render its templates.
TemplateRoots == { <<"tmp", "a">>, <<"tmp", "b">> }

\* Files a rendered template set may contain, relative to its root.
TemplateFiles ==
    { <<".kokoro", "build.sh">>, <<".kokoro", "continuous.cfg">>, <<"README.md">> }

\* Files of the invoking repository that are not part of any template.
RepoOnlyFiles == { <<".kokoro", "local.cfg">>, <<"src", "index.ts">> }

AllPaths == TemplateFiles \cup RepoOnlyFiles

\* The library calls the script makes.
LibraryCalls == { "CommonTemplates", "node_library", "copy" }

\* ------------------------------------------------------------------ state
VARIABLES
    pc,                \* line about to execute, or "done" / "failed"
    common_templates,  \* the name bound at line 5
    templates,         \* the name bound at line 7 (a path, <<>> when unbound)
    rootHandlers,      \* number of handlers on the root logger
    rootLevel,         \* level of the root logger
    calls,             \* calls made by this run, in order
    exitCode,          \* -1 while running, then the process exit code
    fs,                \* the invoking repository: path -> content
    fsAtStart,         \* fs when this run started
    run,               \* index of this run
    prevCalls,         \* the calls of the previous run
    libRoot,           \* environment: where the library renders templates
    rendered,          \* environment: the files the template set contains
    libFails           \* environment: the library calls that raise

vars == << pc, common_templates, templates, rootHandlers, rootLevel, calls,
           exitCode, fs, fsAtStart, run, prevCalls, libRoot, rendered, libFails >>

scriptVars == << common_templates, templates >>
loggingVars == << rootHandlers, rootLevel >>
envVars == << libRoot, rendered, libFails >>
runVars == << fsAtStart, run, prevCalls >>

Running == { "l5", "l6", "l7", "l8" }
Terminal == { "done", "failed" }

\* ---------------------------------------------------------------- helpers
\* Variant: line 6 passes logging.WARNING.
LevelArg_warning == "WARNING"

\* logging.DEBUG, the level passed at line 6.
LevelArg == "DEBUG"

\* The path segment joined at line 8.
KokoroSegment == ".kokoro"

\* Variant: line 7 requests the Python library templates.
TemplateFamily_py == "py_library"

\* The method called on the provider at line 7.
TemplateFamily == "node_library"

\* Variant: line 8 passes the whole template set, the join is dropped.
PathJoin_dropped(path, segment) == path

\* pathlib's  path / segment.
PathJoin(path, segment) == Append(path, segment)

IsPrefix(p, q) ==
    /\ Len(p) <= Len(q)
    /\ SubSeq(q, 1, Len(p)) = p

\* One entry of the call log: the root logger level is the one in force
\* when the call is made.
Call(fn, arg, outcome) ==
    [ fn |-> fn, arg |-> arg, level |-> rootLevel, outcome |-> outcome ]

Outcome(fn) == IF fn \in libFails THEN "raise" ELSE "ok"

\* logging.basicConfig(level=...): does nothing when the root logger
\* already has handlers, else installs one and sets the level.
BasicConfigHandlers(handlers) == IF handlers = 0 THEN 1 ELSE handlers

BasicConfigLevel(handlers, level, arg) == IF handlers = 0 THEN arg ELSE level

\* synthtool's copy with no destination: the source, taken relative to the
\* root of the template set, is the destination inside the repository.
Relativize(source, root) == SubSeq(source, Len(root) + 1, Len(source))

CopyTargets(source, root, files) ==
    IF IsPrefix(root, source)
    THEN { p \in files : IsPrefix(Relativize(source, root), p) }
    ELSE {}

Written(fsys, written) ==
    [ p \in AllPaths |-> IF p \in written THEN "tmpl" ELSE fsys[p] ]

\* ------------------------------------------------------------------- Init
Init ==
    /\ pc = "l5"
    /\ common_templates = "unbound"
    /\ templates = << >>
    /\ rootHandlers = 0
    /\ rootLevel = "WARNING"
    /\ calls = << >>
    /\ exitCode = -1
    /\ fs \in [ AllPaths -> { "absent", "repo" } ]
    /\ fsAtStart = fs
    /\ run = 1
    /\ prevCalls = << >>
    /\ libRoot \in TemplateRoots
    /\ rendered \in SUBSET TemplateFiles
    /\ libFails \in SUBSET LibraryCalls

\* ---------------------------------------------------------------- actions
\* Variant: the failure ends the process, but with exit code 0.
Uncaught_exit0 ==
    /\ pc' = "failed"
    /\ exitCode' = 0

\* An uncaught exception: the traceback is printed, the exit code is 1.
Uncaught ==
    /\ pc' = "failed"
    /\ exitCode' = 1

\* Variant: line 5 is tried a second time when it raises.
ConstructProvider_retry ==
    /\ pc = "l5"
    /\ calls' = Append(calls, [ fn |-> "CommonTemplates", arg |-> << >>,
                                level |-> rootLevel,
                                outcome |-> IF "CommonTemplates" \in libFails
                                            THEN "raise" ELSE "ok" ])
    /\ IF "CommonTemplates" \notin libFails
       THEN /\ common_templates' = "CommonTemplates"
            /\ pc' = "l6"
            /\ exitCode' = exitCode
       ELSE /\ common_templates' = common_templates
            /\ IF calls = << >>
               THEN pc' = "l5" /\ exitCode' = exitCode
               ELSE pc' = "failed" /\ exitCode' = 1
    /\ UNCHANGED << templates, rootHandlers, rootLevel, fs, fsAtStart, run,
                    prevCalls, libRoot, rendered, libFails >>

\* line 5: common_templates = gcp.CommonTemplates()
ConstructProvider ==
    /\ pc = "l5"
    /\ calls' = Append(calls, Call("CommonTemplates", << >>, Outcome("CommonTemplates")))
    /\ IF Outcome("CommonTemplates") = "ok"
       THEN /\ common_templates' = "CommonTemplates"
            /\ pc' = "l6"
            /\ exitCode' = exitCode
       ELSE /\ common_templates' = common_templates
            /\ Uncaught
    /\ UNCHANGED << templates, loggingVars, fs, runVars, envVars >>

\* Variant: line 6 is missing.
ConfigureLogging_skipped ==
    /\ pc = "l6"
    /\ pc' = "l7"
    /\ UNCHANGED << common_templates, templates, rootHandlers, rootLevel, calls,
                    exitCode, fs, fsAtStart, run, prevCalls, libRoot, rendered,
                    libFails >>

\* line 6: logging.basicConfig(level=logging.DEBUG)
ConfigureLogging ==
    /\ pc = "l6"
    /\ calls' = Append(calls, Call("basicConfig", << LevelArg >>, "ok"))
    /\ rootHandlers' = BasicConfigHandlers(rootHandlers)
    /\ rootLevel' = BasicConfigLevel(rootHandlers, rootLevel, LevelArg)
    /\ pc' = "l7"
    /\ UNCHANGED << scriptVars, exitCode, fs, runVars, envVars >>

\* Variant: line 7 is wrapped in try/except and the script goes on.
RequestTemplates_swallowed ==
    /\ pc = "l7"
    /\ calls' = Append(calls, [ fn |-> "node_library", arg |-> << >>,
                                level |-> rootLevel,
                                outcome |-> IF "node_library" \in libFails
                                            THEN "raise" ELSE "ok" ])
    /\ templates' = libRoot
    /\ pc' = "l8"
    /\ UNCHANGED << common_templates, rootHandlers, rootLevel, exitCode, fs,
                    fsAtStart, run, prevCalls, libRoot, rendered, libFails >>

\* line 7: templates = common_templates.node_library()
RequestTemplates ==
    /\ pc = "l7"
    /\ calls' = Append(calls, Call(TemplateFamily, << >>, Outcome(TemplateFamily)))
    /\ IF Outcome(TemplateFamily) = "ok"
       THEN /\ templates' = libRoot
            /\ pc' = "l8"
            /\ exitCode' = exitCode
       ELSE /\ templates' = templates
            /\ Uncaught
    /\ UNCHANGED << common_templates, loggingVars, fs, runVars, envVars >>

\* Variant: line 8 is wrapped in try/except and the script ends normally.
CopyKokoro_swallowed ==
    /\ pc = "l8"
    /\ LET source == Append(templates, ".kokoro")
           targets == { p \in rendered : SubSeq(p, 1, 1) = << ".kokoro" >> }
       IN /\ calls' = Append(calls, [ fn |-> "copy", arg |-> source,
                                      level |-> rootLevel,
                                      outcome |-> IF "copy" \in libFails
                                                  THEN "raise" ELSE "ok" ])
          /\ IF "copy" \notin libFails
             THEN fs' = [ p \in AllPaths |-> IF p \in targets THEN "tmpl" ELSE fs[p] ]
             ELSE fs' = fs
    /\ pc' = "done"
    /\ exitCode' = 0
    /\ UNCHANGED << common_templates, templates, rootHandlers, rootLevel,
                    fsAtStart, run, prevCalls, libRoot, rendered, libFails >>

\* Variant: line 8 copies the whole template set.
CopyKokoro_everything ==
    /\ pc = "l8"
    /\ calls' = Append(calls, [ fn |-> "copy", arg |-> Append(templates, ".kokoro"),
                                level |-> rootLevel,
                                outcome |-> IF "copy" \in libFails
                                            THEN "raise" ELSE "ok" ])
    /\ IF "copy" \notin libFails
       THEN /\ fs' = [ p \in AllPaths |-> IF p \in rendered THEN "tmpl" ELSE fs[p] ]
            /\ pc' = "done"
            /\ exitCode' = 0
       ELSE /\ fs' = fs
            /\ pc' = "failed"
            /\ exitCode' = 1
    /\ UNCHANGED << common_templates, templates, rootHandlers, rootLevel,
                    fsAtStart, run, prevCalls, libRoot, rendered, libFails >>

\* line 8: s.copy(templates / ".kokoro"), then the end of the script
CopyKokoro ==
    /\ pc = "l8"
    /\ LET source == PathJoin(templates, KokoroSegment)
           targets == CopyTargets(source, libRoot, rendered)
       IN /\ calls' = Append(calls, Call("copy", source, Outcome("copy")))
          /\ IF Outcome("copy") = "ok"
             THEN /\ fs' = Written(fs, targets)
                  /\ pc' = "done"
                  /\ exitCode' = 0
             ELSE /\ \E written \in SUBSET targets : fs' = Written(fs, written)
                  /\ Uncaught
    /\ UNCHANGED << scriptVars, loggingVars, runVars, envVars >>

\* Variant: the script is run again inside the same interpreter, so the
\* root logger keeps its configuration.
Invoke_sameProcess ==
    /\ pc \in { "done", "failed" }
    /\ run < MaxRuns
    /\ run' = run + 1
    /\ prevCalls' = calls
    /\ fsAtStart' = fs
    /\ pc' = "l5"
    /\ common_templates' = "unbound"
    /\ templates' = << >>
    /\ calls' = << >>
    /\ exitCode' = -1
    /\ UNCHANGED << rootHandlers, rootLevel, fs, libRoot, rendered, libFails >>

\* The script is invoked again: a new process, the same repository.
Invoke ==
    /\ pc \in Terminal
    /\ run < MaxRuns
    /\ run' = run + 1
    /\ prevCalls' = calls
    /\ fsAtStart' = fs
    /\ pc' = "l5"
    /\ common_templates' = "unbound"
    /\ templates' = << >>
    /\ rootHandlers' = 0
    /\ rootLevel' = "WARNING"
    /\ calls' = << >>
    /\ exitCode' = -1
    /\ UNCHANGED << fs, envVars >>

Step ==
    \/ ConstructProvider
    \/ ConfigureLogging
    \/ RequestTemplates
    \/ CopyKokoro

Next ==
    \/ ConstructProvider
    \/ ConfigureLogging
    \/ RequestTemplates
    \/ CopyKokoro
    \/ Invoke

Spec == Init /\ [][Next]_vars

\* The interpreter runs the statements of a started script to the end.
FairSpec == Spec /\ WF_vars(Step)

\* ------------------------------------------------------ reading the log
Count(fn) == Cardinality({ i \in DOMAIN calls : calls[i].fn = fn })

Raised(fn) == \E i \in DOMAIN calls : calls[i].fn = fn /\ calls[i].outcome = "raise"

Returned(fn) == \E i \in DOMAIN calls : calls[i].fn = fn /\ calls[i].outcome = "ok"

InKokoro(p) == IsPrefix(<< ".kokoro" >>, p)

\* ------------------------------------------------------------- properties
Last(path) == path[Len(path)]

Index(fn) == CHOOSE i \in DOMAIN calls : calls[i].fn = fn

\* C1 as stated: every run calls the provider-construction function exactly
\* once, with the "generic library" template-family selector.  Line 5 calls
\* the constructor without any selector and line 7 selects node_library, and
\* a run in which the constructor raises never reaches line 7.
C1_AsStated ==
    pc \in Terminal =>
        Cardinality({ i \in DOMAIN calls :
            /\ calls[i].fn \in { "CommonTemplates", "node_library", "generic_library" }
            /\ \/ calls[i].fn = "generic_library"
               \/ calls[i].arg = << "generic_library" >> }) = 1

\* C1 amended: in every run the constructor gcp.CommonTemplates is called
\* exactly once, without a selector; the template family is selected by one
\* request, node_library, made at most once, and exactly once in every run
\* whose constructor returned.
C1_ProviderOnceNodeLibrary ==
    /\ Count("CommonTemplates") = (IF pc = "l5" THEN 0 ELSE 1)
    /\ \A i \in DOMAIN calls :
          /\ calls[i].fn \in { "CommonTemplates", "basicConfig", "node_library", "copy" }
          /\ calls[i].fn = "CommonTemplates" => calls[i].arg = << >>
    /\ Count("node_library") <= 1
    /\ (pc \in Terminal /\ Returned("CommonTemplates")) => Count("node_library") = 1

C1_Witness ==
    /\ pc = "done"
    /\ Count("CommonTemplates") = 1
    /\ Count("node_library") = 1

\* C2: in a run that completes, copy has been called exactly once, and its
\* argument is the template set the provider returned followed by the one
\* segment .kokoro.
C2_CopyOnceWithKokoro ==
    pc = "done" =>
        /\ Count("copy") = 1
        /\ LET arg == calls[Index("copy")].arg
           IN /\ Len(arg) = Len(libRoot) + 1
              /\ SubSeq(arg, 1, Len(libRoot)) = libRoot
              /\ Last(arg) = ".kokoro"

C2_Witness ==
    /\ pc = "done"
    /\ Count("copy") = 1
    /\ Last(calls[Len(calls)].arg) = ".kokoro"

\* C3: whenever copy is invoked the root logger has already been configured
\* at DEBUG: the script is never about to copy, and never has copied, with
\* logging unconfigured.
C3_LoggingSetBeforeCopy ==
    /\ pc = "l8" => (rootLevel = "DEBUG" /\ rootHandlers > 0)
    /\ \A i \in DOMAIN calls : calls[i].fn = "copy" => calls[i].level = "DEBUG"

C3_Witness ==
    \E i \in DOMAIN calls : calls[i].fn = "copy" /\ calls[i].level = "DEBUG"

\* C4 as stated: logging is configured first, so no call that constructs or
\* requests the template provider is made before the logging level is set.
C4_AsStated ==
    \A i \in DOMAIN calls :
        calls[i].fn \in { "CommonTemplates", "node_library" } => calls[i].level = "DEBUG"

\* C4 amended: the provider is constructed first, while logging is still
\* unconfigured; then logging is set to DEBUG; then the templates are
\* requested; then the copy is made.  The request and the copy, not the
\* construction, happen after the logging level has been set.
C4_OrderOfSteps ==
    /\ calls # << >> => (calls[1].fn = "CommonTemplates" /\ calls[1].level = "WARNING")
    /\ \A i \in DOMAIN calls :
          /\ calls[i].fn \in { "node_library", "copy" } => calls[i].level = "DEBUG"
          /\ calls[i].fn = "basicConfig" => i = 2
          /\ calls[i].fn = "node_library" => i = 3
          /\ calls[i].fn = "copy" => i = 4

C4_Witness ==
    /\ Len(calls) = 4
    /\ calls[1].level = "WARNING"
    /\ calls[3].level = "DEBUG"

\* C5: a failure of copy is not suppressed: the run is then in the failure
\* state with a nonzero exit code, never in the success state.
C5_CopyFailurePropagates ==
    Raised("copy") =>
        /\ pc = "failed"
        /\ exitCode = 1

C5_Witness ==
    /\ Raised("copy")
    /\ pc = "failed"

\* C6: the only write the script requests is one copy of the .kokoro
\* subtree; every path of the repository outside .kokoro is as it was when
\* the run started.
C6_OnlyKokoroTouched ==
    /\ Count("copy") <= 1
    /\ \A i \in DOMAIN calls : calls[i].fn = "copy" => Last(calls[i].arg) = ".kokoro"
    /\ \A p \in AllPaths : ~InKokoro(p) => fs[p] = fsAtStart[p]

C6_Witness ==
    /\ pc = "done"
    /\ << "README.md" >> \in rendered
    /\ fs[<< "README.md" >>] = "absent"
    /\ fs[<< ".kokoro", "build.sh" >>] = "tmpl"
    /\ fsAtStart[<< ".kokoro", "build.sh" >>] # "tmpl"

\* C7: a finished run has exit code 0 exactly when none of the library
\* calls (construction, request, copy) raised; a call that raises ends the
\* run in failure.
C7_ExitCodeReflectsFailures ==
    /\ pc \in Terminal =>
          /\ exitCode = 0 <=> (\A fn \in LibraryCalls : ~Raised(fn))
          /\ exitCode = 0 <=> pc = "done"
          /\ exitCode \in { 0, 1 }
    /\ (\E fn \in LibraryCalls : Raised(fn)) => (pc = "failed" /\ exitCode = 1)

C7_Witness ==
    /\ pc = "failed"
    /\ exitCode = 1
    /\ Raised("CommonTemplates")

\* C8: a run is one linear pass: every operation is executed at most once,
\* nothing is executed after a failure, and a started run always ends, in
\* done or in failed.
C8_OneShotTerminates ==
    /\ [](\A fn \in { "CommonTemplates", "basicConfig", "node_library", "copy" } :
             Count(fn) <= 1)
    /\ [][pc = "failed" => (calls' = calls \/ run' = run + 1)]_vars
    /\ (pc \in Running) ~> (pc \in Terminal)

C8_Witness ==
    /\ pc = "failed"
    /\ Raised("node_library")
    /\ Len(calls) = 3

\* C9: when the construction or the request raises, copy is never invoked
\* in that run and the repository is as it was when the run started.
C9_FailFastBeforeCopy ==
    (Raised("CommonTemplates") \/ Raised("node_library")) =>
        /\ Count("copy") = 0
        /\ fs = fsAtStart
        /\ pc = "failed"

C9_Witness ==
    /\ Raised("node_library")
    /\ Count("copy") = 0
    /\ "copy" \notin libFails
    /\ \E p \in rendered : InKokoro(p)

\* C10: copy is the last thing a run does: after it nothing is called, the
\* logger is not reconfigured and the repository is not written until a new
\* run starts; and a later run in the same environment makes the same calls,
\* with the same arguments and under the same logging state, as the one
\* before it.
C10_CopyIsFinal ==
    /\ [][Count("copy") > 0 =>
             \/ run' = run + 1
             \/ /\ calls' = calls
                /\ fs' = fs
                /\ rootHandlers' = rootHandlers
                /\ rootLevel' = rootLevel]_vars
    /\ []((run > 1 /\ pc \in Terminal) => calls = prevCalls)

C10_Witness ==
    /\ run > 1
    /\ pc = "done"
    /\ calls = prevCalls
    /\ Len(calls) = 4

\* ------------------------------------------------------------- type check
TypeOK ==
    /\ pc \in Running \cup Terminal
    /\ common_templates \in { "unbound", "CommonTemplates" }
    /\ templates \in TemplateRoots \cup { << >> }
    /\ rootHandlers \in 0..1
    /\ rootLevel \in { "WARNING", "DEBUG" }
    /\ exitCode \in { -1, 0, 1 }
    /\ fs \in [ AllPaths -> { "absent", "repo", "tmpl" } ]
    /\ run \in 1..MaxRuns

====
